---- MODULE Spec2Model ----
(***************************************************************************)
(* Model of bcc::Script (lib/ExecutionEngine/Script.cpp): the orchestrator *)
(* that owns up to two sources, finalizes into a compiled or a cached      *)
(* artifact, and reads/writes the on-disk cache.                           *)
(*                                                                         *)
(* Three specifications share the definitions:                             *)
(*   Spec       one host process driving one Script through every host     *)
(*              operation of the class, until the Script is destroyed;     *)
(*   SpecCache  two runs one after the other against one cache location:   *)
(*              the second run has the same or changed dependencies;       *)
(*   SpecConc   two processes finalizing Scripts against the same cache    *)
(*              location, interleaved at the file-system calls.            *)
(***************************************************************************)
EXTENDS Integers, Sequences, FiniteSets, TLC

\* ------------------------------------------------------------------ bounds
MaxHash == 2
MaxLeak == 1

\* --------------------------------------------------------------- constants
Procs == {"A", "B"}
HostProcs == {"A"}

Unknown == "Unknown"
Compiled == "Compiled"
Cached == "Cached"

BCC_NO_ERROR == "NoError"
BCC_INVALID_VALUE == "InvalidValue"
BCC_INVALID_OPERATION == "InvalidOperation"
BCC_OUT_OF_MEMORY == "OutOfMemory"

ObjUnknown == "ObjUnknown"
Executable == "Executable"
Relocatable == "Relocatable"

Hashes == 1..MaxHash
NULL == 0

\* C strings are sequences of characters; a null char pointer is NullStr.
NullStr == <<"NULL">>
EmptyStr == << >>
\* (cacheDir, cacheName) arguments: a null pointer on either side, an empty
\* string on either side, a directory with and without the trailing '/'.
CacheArgs == {<<NullStr, <<"n">> >>, << <<"c">>, NullStr>>,
              <<EmptyStr, <<"n">> >>, << <<"c">>, EmptyStr>>,
              << <<"c">>, <<"n">> >>, << <<"c", "/">>, <<"n">> >>}
OutPath == <<"o", "u", "t">>

VARIABLES
  alive,            \* the process currently holds a constructed Script
  mStatus, mCompiled, mCached, mSourceList,
  mCacheDir, mCacheName, mErrorCode, mObjectType,
  mpExtSymbolLookupFn, mpExtSymbolLookupFnContext,
  leaked,           \* compiled artifacts allocated, not destroyed, unreferenced
  pc, hObj, hInfo,  \* position inside prepareExecutable and its open handles
  disk, inodes,     \* path -> inode (or NoFile), inode -> content
  sha1LibBCC, sha1LibRS, TARGET_BUILD, nocache,
  lastOp            \* per process, its most recent host call: what, result, trace

scriptVars == <<mStatus, mCompiled, mCached, mSourceList, mCacheDir, mCacheName,
                mErrorCode, mObjectType, mpExtSymbolLookupFn,
                mpExtSymbolLookupFnContext, leaked>>
procVars == <<alive, pc, hObj, hInfo>>
fsVars == <<disk, inodes>>
envVars == <<sha1LibBCC, sha1LibRS, TARGET_BUILD, nocache>>
vars == <<scriptVars, procVars, fsVars, envVars, lastOp>>

\* ------------------------------------------------------------ file system
\* An inode is named by the process that created it and the path it was
\* created at; "old" files were left by an earlier run.
Creators == Procs \cup {"old"}
Kinds == {"obj", "info", "out"}
NoFile == <<"-", "-">>
InodeIds == Creators \X Kinds
NoEnv == << >>
FreeInode == [st |-> "free", ledger |-> << >>, env |-> NoEnv, by |-> "-"]
EmptyFile == [st |-> "empty", ledger |-> << >>, env |-> NoEnv, by |-> "-"]
\* A file written completely by p: the ledger it records (metadata file) and
\* the dependency hashes it was written under; a file p wrote only partly.
FullFile(p, ledger, env) ==
  [st |-> "full", ledger |-> ledger, env |-> env, by |-> p]
PartialFile(p) == [st |-> "partial", ledger |-> << >>, env |-> NoEnv, by |-> p]

\* Script::getCachedObjectPath / getCacheInfoPath: two sibling files.
ObjPathOf(dir, name) == dir \o name \o <<".o">>
InfoPathOf(dir, name) == dir \o name \o <<".info">>
getCachedObjectPath(p) == ObjPathOf(mCacheDir[p], mCacheName[p])
getCacheInfoPath(p) == InfoPathOf(mCacheDir[p], mCacheName[p])

CacheObjPath == ObjPathOf(<<"c", "/">>, <<"n">>)
CacheInfoPath == InfoPathOf(<<"c", "/">>, <<"n">>)
Paths == {CacheObjPath, CacheInfoPath, OutPath}

\* An inode is in use while a path names it or a handle is open on it.
InUse(d, ho, hi, i) ==
  \/ \E q \in Paths : d[q] = i
  \/ \E p \in Procs : ho[p] = i \/ hi[p] = i

KindOf(path) ==
  IF path = CacheObjPath THEN "obj"
  ELSE IF path = CacheInfoPath THEN "info" ELSE "out"
FreshInode(p, path) == <<p, KindOf(path)>>

\* Storage of an inode nobody can reach any more is released.
Reclaim(d, ho, hi, ino) ==
  [i \in InodeIds |-> IF InUse(d, ho, hi, i) THEN ino[i] ELSE FreeInode]

\* ::unlink(path): removes the name only; open handles keep the inode.
Unlink(d, path) == [d EXCEPT ![path] = NoFile]

\* -------------------------------------------------------- dependency ledger
\* Variant: the loop over the source slots stops after slot 0.
SrcEntries_PrimaryOnly(srcs) ==
  IF srcs[0] # NULL THEN << <<"src", srcs[0]>> >> ELSE << >>

\* for (i = 0; i < 2; ++i) if (mSourceList[i]) mSourceList[i]->introDependency
SrcEntries(srcs) ==
  (IF srcs[0] # NULL THEN << <<"src", srcs[0]>> >> ELSE << >>) \o
  (IF srcs[1] # NULL THEN << <<"src", srcs[1]>> >> ELSE << >>)

\* The identities of the runtime and of its support library are computed
\* when a process starts; two processes started around an update differ.
RuntimeEntries(p) == << <<"libbcc", sha1LibBCC[p]>>, <<"libRS", sha1LibRS[p]>> >>

\* The content hashes of every dependency of Script p, as they are now: the
\* runtime, its support library, then each present source in slot order.
SrcHashes(srcs) ==
  (IF srcs[0] # NULL THEN <<srcs[0]>> ELSE << >>) \o
  (IF srcs[1] # NULL THEN <<srcs[1]>> ELSE << >>)
CurrentEnv(p) == <<sha1LibBCC[p], sha1LibRS[p]>> \o SrcHashes(mSourceList[p])

\* --------------------------------------------------------------- lastOp
\* who called what, the value returned, the collaborators invoked and events
\* met during the call (did), the pipeline steps run (steps), the outcome of
\* the cache load (load), and what the call was given (arg): the resolver
\* arguments of a registration, the pipeline step that failed in a compile.
NoOp == [p |-> "-", op |-> "none", ret |-> "-", did |-> {}, steps |-> << >>,
         load |-> "na", arg |-> << >>]
Ret(p, op, ret) == [p |-> p, op |-> op, ret |-> ret, did |-> {},
                    steps |-> << >>, load |-> "na", arg |-> << >>]
SetOp(p, rec) == lastOp' = [lastOp EXCEPT ![p] = rec]

\* A ScriptCompiled pointer: null, or an artifact that did or did not finish
\* compiling (ok) and whose backend reports an error message or none (msg).
NullArtifact == [ptr |-> FALSE, ok |-> FALSE, msg |-> "null"]
NewArtifact(ok, msg) == [ptr |-> TRUE, ok |-> ok, msg |-> msg]

artVars == <<mStatus, mCompiled, mCached, leaked>>
cfgVars == <<mCacheDir, mCacheName, mObjectType>>
resVars == <<mpExtSymbolLookupFn, mpExtSymbolLookupFnContext>>
srcVars == <<mSourceList>>

\* ------------------------------------------------------------------ Init
FreshScript ==
  /\ mStatus = [p \in Procs |-> Unknown]
  /\ mCompiled = [p \in Procs |-> NullArtifact]
  /\ mCached = [p \in Procs |-> "null"]
  /\ mCacheDir = [p \in Procs |-> EmptyStr]
  /\ mCacheName = [p \in Procs |-> EmptyStr]
  /\ mErrorCode = [p \in Procs |-> BCC_NO_ERROR]
  /\ mObjectType = [p \in Procs |-> ObjUnknown]
  /\ mpExtSymbolLookupFn = [p \in Procs |-> "null"]
  /\ mpExtSymbolLookupFnContext = [p \in Procs |-> "null"]
  /\ leaked = [p \in Procs |-> 0]
  /\ pc = [p \in Procs |-> "idle"]
  /\ hObj = [p \in Procs |-> NoFile]
  /\ hInfo = [p \in Procs |-> NoFile]
  /\ lastOp = [p \in Procs |-> NoOp]

\* The cache files an earlier run left: a complete pair written under the
\* dependency hashes env, with the ledger the write path records for them.
LedgerOf(env) ==
  (IF TARGET_BUILD THEN << <<"libbcc", env[1]>>, <<"libRS", env[2]>> >>
                   ELSE << >>) \o
  [k \in 1..(Len(env) - 2) |-> <<"src", env[k + 2]>>]

OldCache(env) ==
  /\ disk = [q \in Paths |->
               IF q = OutPath THEN NoFile ELSE <<"old", KindOf(q)>>]
  /\ inodes = [i \in InodeIds |->
                 IF i = <<"old", "obj">> THEN FullFile("old", << >>, env)
                 ELSE IF i = <<"old", "info">>
                   THEN FullFile("old", LedgerOf(env), env)
                 ELSE FreeInode]

NoCacheFiles ==
  /\ disk = [q \in Paths |-> NoFile]
  /\ inodes = [i \in InodeIds |-> FreeInode]

\* One process with a freshly constructed Script; the cache location is
\* empty or holds the files of an earlier run of a one-source script.
Init ==
  /\ FreshScript
  /\ alive = [p \in Procs |-> p \in HostProcs]
  /\ mSourceList = [p \in Procs |-> [i \in 0..1 |-> NULL]]
  /\ sha1LibBCC = [p \in Procs |-> 1]
  /\ sha1LibRS = [p \in Procs |-> 1]
  /\ TARGET_BUILD = TRUE
  /\ nocache = FALSE
  /\ \/ NoCacheFiles
     \/ OldCache(<<1, 1, 1>>)

\* The host calls into a Script only between operations.
Ready(p) == alive[p] /\ pc[p] = "idle"

\* An operation that fails on entry: sets the error code, returns 1.
Reject(p, op, code) ==
  /\ mErrorCode' = [mErrorCode EXCEPT ![p] = code]
  /\ SetOp(p, Ret(p, op, "1"))
  /\ UNCHANGED <<artVars, cfgVars, resVars, srcVars, procVars, fsVars, envVars>>

\* mSourceList[idx] = SourceInfo::createFrom...(); if (!mSourceList[idx]) ...
\* The slot is assigned without deleting the descriptor it held: a descriptor
\* held before is then allocated and unreferenced ("src_lost").
StoreSource(p, op, idx, desc) ==
  LET lost == IF mSourceList[p][idx] # NULL THEN {"src_lost"} ELSE {} IN
  /\ mSourceList' = [mSourceList EXCEPT ![p][idx] = desc]
  /\ IF desc = NULL
       THEN /\ mErrorCode' = [mErrorCode EXCEPT ![p] = BCC_OUT_OF_MEMORY]
            /\ SetOp(p, [Ret(p, op, "1") EXCEPT !.did = lost])
       ELSE /\ UNCHANGED mErrorCode
            /\ SetOp(p, [Ret(p, op, "0") EXCEPT !.did = lost])
  /\ UNCHANGED <<artVars, cfgVars, resVars, procVars, fsVars, envVars>>

\* ----------------------------------------------------------- add-source
\* resName: the name pointer is non-null; bitcode: NULL or the content's
\* identity; alloc: SourceInfo::createFromBuffer returned a descriptor.
addSourceBC(p, idx, resName, bitcode, alloc) ==
  /\ Ready(p)
  /\ IF ~resName
       THEN Reject(p, "addSourceBC", BCC_INVALID_VALUE)
     ELSE IF mStatus[p] # Unknown
       THEN Reject(p, "addSourceBC", BCC_INVALID_OPERATION)
     ELSE IF bitcode = NULL
       THEN Reject(p, "addSourceBC", BCC_INVALID_VALUE)
     ELSE StoreSource(p, "addSourceBC", idx, IF alloc THEN bitcode ELSE NULL)

addSourceModule(p, idx, module, alloc) ==
  /\ Ready(p)
  /\ IF mStatus[p] # Unknown
       THEN Reject(p, "addSourceModule", BCC_INVALID_OPERATION)
     ELSE IF module = NULL
       THEN Reject(p, "addSourceModule", BCC_INVALID_VALUE)
     ELSE StoreSource(p, "addSourceModule", idx, IF alloc THEN module ELSE NULL)

\* path: "null", "missing" (stat fails) or "file"; content: the file's identity.
addSourceFile(p, idx, path, content, alloc) ==
  /\ Ready(p)
  /\ IF mStatus[p] # Unknown
       THEN Reject(p, "addSourceFile", BCC_INVALID_OPERATION)
     ELSE IF path = "null"
       THEN Reject(p, "addSourceFile", BCC_INVALID_VALUE)
     ELSE IF path = "missing"
       THEN Reject(p, "addSourceFile", BCC_INVALID_VALUE)
     ELSE StoreSource(p, "addSourceFile", idx, IF alloc THEN content ELSE NULL)

AddSourceOps == {"addSourceBC", "addSourceModule", "addSourceFile"}

\* ------------------------------------------------------ compile pipeline
FailSteps == {"none", "prepare0", "prepare1", "readModule", "linkModule",
              "compile"}
MsgValues == {"null", "str"}

\* Variant: the base module is set before the library module is materialized.
PipelineSteps_ReadFirst(srcs) ==
  IF srcs[0] = NULL THEN <<"require0">>
  ELSE <<"require0", "prepare0", "readModule">> \o
       (IF srcs[1] # NULL THEN <<"prepare1", "linkModule">> ELSE << >>) \o
       <<"compile">>

\* The steps of the pipeline after the artifact was allocated, in order.
PipelineSteps(srcs) ==
  IF srcs[0] = NULL THEN <<"require0">>
  ELSE <<"require0", "prepare0">> \o
       (IF srcs[1] # NULL THEN <<"prepare1">> ELSE << >>) \o
       <<"readModule">> \o
       (IF srcs[1] # NULL THEN <<"linkModule">> ELSE << >>) \o
       <<"compile">>

RECURSIVE FirstIndex(_, _, _)
FirstIndex(seq, x, i) ==
  IF i > Len(seq) THEN 0
  ELSE IF seq[i] = x THEN i ELSE FirstIndex(seq, x, i + 1)

\* Script::internalCompile as a function of the Script's fields and of what
\* the allocator and the backend answer: alloc (new returned an object), fail
\* (the step that fails, if it runs), msg (the backend's message afterwards).
\* Yields the return value and the fields as the call leaves them.
internalCompile(p, alloc, fail, msg) ==
  LET srcs == mSourceList[p]
      all == PipelineSteps(srcs)
      stop == IF srcs[0] = NULL THEN 1 ELSE FirstIndex(all, fail, 1)
      ran == IF stop = 0 THEN all ELSE SubSeq(all, 1, stop)
      lost == IF mCompiled[p].ptr THEN 1 ELSE 0
  IN IF ~alloc
       THEN [ret |-> "1", status |-> mStatus[p], compiled |-> NullArtifact,
             err |-> BCC_OUT_OF_MEMORY, leaked |-> leaked[p] + lost,
             steps |-> <<"alloc">>, failed |-> "alloc"]
       ELSE [ret |-> IF stop = 0 THEN "0" ELSE "1",
             status |-> Compiled,
             compiled |-> NewArtifact(stop = 0, msg),
             err |-> mErrorCode[p], leaked |-> leaked[p] + lost,
             steps |-> <<"alloc", "share">> \o ran,
             failed |-> IF stop = 0 THEN "none" ELSE all[stop]]

\* Script::getCompilerErrorMessage evaluated on given fields: the message
\* and the error code it leaves.  With status Compiled and a null artifact
\* pointer the call dereferences null.
ErrMsgValue(status, compiled) ==
  IF status # Compiled THEN "null" ELSE compiled.msg
ErrMsgCode(status, err) ==
  IF status # Compiled THEN BCC_INVALID_OPERATION ELSE err
NullDeref(status, compiled, cached) ==
  \/ status = Compiled /\ ~compiled.ptr
  \/ status = Cached /\ cached = "null"

\* The process dies on a null dereference (one outcome of the undefined
\* behaviour; the other is that the call goes on).
Crash(p, op) ==
  /\ pc' = [pc EXCEPT ![p] = "crashed"]
  /\ SetOp(p, Ret(p, op, "crash"))
  /\ UNCHANGED <<alive, hObj, hInfo>>

UBOutcomes == {"crash", "null", "str"}

\* ub: what a null dereference does here (dies, or reads some message).
getCompilerErrorMessage(p, ub) ==
  /\ Ready(p)
  /\ IF NullDeref(mStatus[p], mCompiled[p], "obj") /\ ub = "crash"
       THEN /\ Crash(p, "getCompilerErrorMessage")
            /\ UNCHANGED <<scriptVars, fsVars, envVars>>
       ELSE /\ mErrorCode' = [mErrorCode EXCEPT ![p] =
                                ErrMsgCode(mStatus[p], @)]
            /\ SetOp(p, Ret(p, "getCompilerErrorMessage",
                             IF NullDeref(mStatus[p], mCompiled[p], "obj")
                               THEN ub
                               ELSE ErrMsgValue(mStatus[p], mCompiled[p])))
            /\ UNCHANGED <<artVars, cfgVars, resVars, srcVars, procVars,
                           fsVars, envVars>>

\* ------------------------------------------------- FileHandle, write mode
\* FileHandle::open(path, OpenMode::Write): creates the file when the path
\* names none, otherwise opens the file the path names and truncates it.
CanOpenWrite(p, d, ho, hi, path) ==
  d[path] # NoFile \/ ~InUse(d, ho, hi, FreshInode(p, path))
OpenWriteInode(p, d, ho, hi, path) ==
  IF d[path] # NoFile THEN d[path] ELSE FreshInode(p, path)

\* ------------------------------------------------------ prepareRelocatable
\* openOK: the output file can be opened; writeFull: write() returned the
\* whole size.  The output file handle is a local, closed on every return.
prepareRelocatable(p, alloc, fail, msg, openOK, writeFull, ub) ==
  LET r == internalCompile(p, alloc, fail, msg)
      op == "prepareRelocatable"
      i == OpenWriteInode(p, disk, hObj, hInfo, OutPath)
      opened == openOK /\ CanOpenWrite(p, disk, hObj, hInfo, OutPath)
  IN
  /\ Ready(p)
  /\ r.leaked <= MaxLeak
  /\ mCompiled' = [mCompiled EXCEPT ![p] = r.compiled]
  /\ mStatus' = [mStatus EXCEPT ![p] = r.status]
  /\ leaked' = [leaked EXCEPT ![p] = r.leaked]
  /\ UNCHANGED <<mCached, mCacheDir, mCacheName, resVars, srcVars, envVars,
                 alive, hObj, hInfo>>
  /\ IF r.ret # "0"
       THEN \* ALOGE("LLVM error message: %s\n", getCompilerErrorMessage())
            /\ mErrorCode' = [mErrorCode EXCEPT ![p] =
                                ErrMsgCode(r.status, r.err)]
            /\ UNCHANGED <<mObjectType, fsVars>>
            /\ IF NullDeref(r.status, r.compiled, "obj") /\ ub = "crash"
                 THEN /\ pc' = [pc EXCEPT ![p] = "crashed"]
                      /\ SetOp(p, [Ret(p, op, "crash") EXCEPT
                                      !.did = {"compile", "compile_failed"},
                                      !.steps = r.steps, !.arg = <<r.failed>>])
                 ELSE /\ UNCHANGED pc
                      /\ SetOp(p, [Ret(p, op, r.ret) EXCEPT
                                      !.did = {"compile", "compile_failed"},
                                      !.steps = r.steps, !.arg = <<r.failed>>])
     ELSE IF ~opened
       THEN /\ UNCHANGED <<mErrorCode, mObjectType, fsVars, pc>>
            /\ SetOp(p, [Ret(p, op, "1") EXCEPT
                            !.did = {"compile", "open_failed"},
                            !.steps = r.steps, !.arg = <<r.failed>>])
     ELSE IF ~writeFull
       THEN \* objFile.close(); ::unlink(objPath); return false;
            /\ disk' = Unlink(disk, OutPath)
            /\ inodes' = Reclaim(disk', hObj, hInfo,
                                 [inodes EXCEPT ![i] = PartialFile(p)])
            /\ UNCHANGED <<mErrorCode, mObjectType, pc>>
            /\ SetOp(p, [Ret(p, op, "0") EXCEPT
                            !.did = {"compile", "short_write"},
                            !.steps = r.steps, !.arg = <<r.failed>>])
     ELSE /\ disk' = [disk EXCEPT ![OutPath] = i]
          /\ inodes' = [inodes EXCEPT ![i] = FullFile(p, << >>, NoEnv)]
          /\ mObjectType' = [mObjectType EXCEPT ![p] = Relocatable]
          /\ UNCHANGED <<mErrorCode, pc>>
          /\ SetOp(p, [Ret(p, op, "0") EXCEPT
                          !.did = {"compile", "written"},
                          !.steps = r.steps, !.arg = <<r.failed>>])

\* ------------------------------------------------------- cache eligibility
\* Script::isCacheable on given cache strings (USE_CACHE build).
isCacheableFor(dir, name) ==
  IF nocache THEN FALSE
  ELSE IF dir = EmptyStr \/ name = EmptyStr THEN FALSE
  ELSE TRUE
isCacheable(p) == isCacheableFor(mCacheDir[p], mCacheName[p])

\* mCacheDir = cacheDir; a non-empty directory gets a trailing '/'.
SanitizeDir(dir) ==
  IF dir # EmptyStr /\ dir[Len(dir)] # "/" THEN Append(dir, "/") ELSE dir

\* ------------------------------------------------------- prepareExecutable
\* The call runs as a sequence of steps, one per file-system call, so that
\* other processes can act on the cache files in between.  pc[p] is the step
\* the call is at; lastOp[p].ret is "pending" until it returns.
Pending(p) == [Ret(p, "prepareExecutable", "pending") EXCEPT !.did = {"load"}]
Note(p, tags) == SetOp(p, [lastOp[p] EXCEPT !.did = @ \cup tags])
Goto(p, label) == pc' = [pc EXCEPT ![p] = label]

\* Variant: the entry without the status guard.
prepareExecutable_NoGuard(p, cacheDir, cacheName) ==
  /\ Ready(p)
  /\ IF cacheDir = NullStr \/ cacheName = NullStr
       THEN /\ Goto(p, "compile")
            /\ SetOp(p, [Pending(p) EXCEPT !.load = "nullarg"])
            /\ UNCHANGED <<scriptVars, alive, hObj, hInfo, fsVars, envVars>>
     ELSE /\ mCacheName' = [mCacheName EXCEPT ![p] = cacheName]
          /\ mCacheDir' = [mCacheDir EXCEPT ![p] = SanitizeDir(cacheDir)]
          /\ IF ~isCacheableFor(SanitizeDir(cacheDir), cacheName)
               THEN /\ Goto(p, "compile")
                    /\ SetOp(p, [Pending(p) EXCEPT !.load = "disabled"])
               ELSE /\ Goto(p, "load_open_obj")
                    /\ SetOp(p, Pending(p))
          /\ UNCHANGED <<artVars, mObjectType, mErrorCode, resVars, srcVars,
                         alive, hObj, hInfo, fsVars, envVars>>

\* Entry: the status guard, then internalLoadCache up to its first open.
prepareExecutable(p, cacheDir, cacheName) ==
  /\ Ready(p)
  /\ IF mStatus[p] # Unknown
       THEN Reject(p, "prepareExecutable", BCC_INVALID_OPERATION)
     ELSE IF cacheDir = NullStr \/ cacheName = NullStr
       THEN /\ Goto(p, "compile")
            /\ SetOp(p, [Pending(p) EXCEPT !.load = "nullarg"])
            /\ UNCHANGED <<scriptVars, alive, hObj, hInfo, fsVars, envVars>>
     ELSE /\ mCacheName' = [mCacheName EXCEPT ![p] = cacheName]
          /\ mCacheDir' = [mCacheDir EXCEPT ![p] = SanitizeDir(cacheDir)]
          /\ IF ~isCacheableFor(SanitizeDir(cacheDir), cacheName)
               THEN /\ Goto(p, "compile")
                    /\ SetOp(p, [Pending(p) EXCEPT !.load = "disabled"])
               ELSE /\ Goto(p, "load_open_obj")
                    /\ SetOp(p, Pending(p))
          /\ UNCHANGED <<artVars, mObjectType, mErrorCode, resVars, srcVars,
                         alive, hObj, hInfo, fsVars, envVars>>

\* Variant: a cache object file that cannot be opened fails the whole call.
LoadOpenObj_Fatal(p, ok) ==
  /\ alive[p] /\ pc[p] = "load_open_obj"
  /\ IF ok /\ disk[getCachedObjectPath(p)] # NoFile
       THEN /\ hObj' = [hObj EXCEPT ![p] = disk[getCachedObjectPath(p)]]
            /\ Goto(p, "load_open_info")
            /\ UNCHANGED lastOp
       ELSE /\ Goto(p, "idle")
            /\ SetOp(p, [lastOp[p] EXCEPT !.load = "noobj", !.ret = "1"])
            /\ UNCHANGED hObj
  /\ UNCHANGED <<scriptVars, alive, hInfo, fsVars, envVars>>

\* objFile.open(objPath, OpenMode::Read)
LoadOpenObj(p, ok) ==
  /\ alive[p] /\ pc[p] = "load_open_obj"
  /\ IF ok /\ disk[getCachedObjectPath(p)] # NoFile
       THEN /\ hObj' = [hObj EXCEPT ![p] = disk[getCachedObjectPath(p)]]
            /\ Goto(p, "load_open_info")
            /\ UNCHANGED lastOp
       ELSE /\ Goto(p, "compile")
            /\ SetOp(p, [lastOp[p] EXCEPT !.load = "noobj"])
            /\ UNCHANGED hObj
  /\ UNCHANGED <<scriptVars, alive, hInfo, fsVars, envVars>>

\* infoFile.open(infoPath, OpenMode::Read); on failure the object file
\* handle goes out of scope.
LoadOpenInfo(p, ok) ==
  /\ alive[p] /\ pc[p] = "load_open_info"
  /\ IF ok /\ disk[getCacheInfoPath(p)] # NoFile
       THEN /\ hInfo' = [hInfo EXCEPT ![p] = disk[getCacheInfoPath(p)]]
            /\ Goto(p, "load_read")
            /\ UNCHANGED <<lastOp, hObj, inodes>>
       ELSE /\ Goto(p, "compile")
            /\ SetOp(p, [lastOp[p] EXCEPT !.load = "noinfo"])
            /\ hObj' = [hObj EXCEPT ![p] = NoFile]
            /\ inodes' = Reclaim(disk, hObj', hInfo, inodes)
            /\ UNCHANGED hInfo
  /\ UNCHANGED <<scriptVars, alive, disk, envVars>>

\* The ledger the load path hands to the cache reader.
LoadLedger(p) == RuntimeEntries(p) \o SrcEntries(mSourceList[p])

\* The ledger the write path hands to the cache writer.
WriteLedger(p) ==
  (IF TARGET_BUILD THEN RuntimeEntries(p) ELSE << >>) \o
  SrcEntries(mSourceList[p])

\* MCCacheReader: the candidate is accepted iff both files are complete and
\* the ledger recorded in the metadata file equals the expected ledger.
LedgerAccepted(obj, info, ledger) ==
  obj.st = "full" /\ info.st = "full" /\ info.ledger = ledger

\* The cache files a reader holds were written as a pair, completely, under
\* the dependency hashes Script p has now.
FreshPair(p, obj, info) ==
  /\ obj.st = "full" /\ info.st = "full"
  /\ obj.by = info.by
  /\ info.env = CurrentEnv(p)

\* Which artifact getELF()/getELFSize() read, by status.
GdbTag(st) ==
  IF st = Cached THEN "gdb_cached"
  ELSE IF st = Compiled THEN "gdb_compiled" ELSE "gdb_null"

\* The tail of prepareExecutable: registerObjectWithGDB(getELF(),
\* getELFSize()); mObjectType = Executable; return status (0).
Finish(p, tags) ==
  /\ mObjectType' = [mObjectType EXCEPT ![p] = Executable]
  /\ Goto(p, "idle")
  /\ SetOp(p, [lastOp[p] EXCEPT !.ret = "0",
                 !.did = @ \cup tags \cup {GdbTag(mStatus'[p])}])

\* reader.readCacheFile(&objFile, &infoFile, this) and what follows it.
\* decodeOK: the codec could decode the accepted files.
LoadRead(p, decodeOK) ==
  LET obj == inodes[hObj[p]]
      info == inodes[hInfo[p]]
      fresh == IF FreshPair(p, obj, info) THEN {"fresh_cache"} ELSE {}
      accepted == LedgerAccepted(obj, info, LoadLedger(p))
  IN
  /\ alive[p] /\ pc[p] = "load_read"
  /\ hObj' = [hObj EXCEPT ![p] = NoFile]
  /\ hInfo' = [hInfo EXCEPT ![p] = NoFile]
  /\ inodes' = Reclaim(disk, hObj', hInfo', inodes)
  /\ UNCHANGED <<alive, disk, envVars, mCompiled, leaked, mCacheDir,
                 mCacheName, mErrorCode, resVars, srcVars>>
  /\ IF accepted /\ decodeOK
       THEN /\ mCached' = [mCached EXCEPT ![p] = "obj"]
            /\ mStatus' = [mStatus EXCEPT ![p] = Cached]
            /\ mObjectType' = [mObjectType EXCEPT ![p] = Executable]
            /\ Goto(p, "idle")
            /\ SetOp(p, [lastOp[p] EXCEPT !.ret = "0", !.load = "hit",
                           !.did = @ \cup fresh \cup {GdbTag(Cached)}])
       ELSE /\ Goto(p, "compile")
            /\ SetOp(p, [lastOp[p] EXCEPT
                           !.load = IF accepted THEN "decode" ELSE "ledger",
                           !.did = @ \cup fresh])
            /\ UNCHANGED <<mCached, mStatus, mObjectType>>

\* internalCompile, the error log on failure, and writeCache up to its
\* first file-system call.
Compile(p, alloc, fail, msg) ==
  LET r == internalCompile(p, alloc, fail, msg) IN
  /\ alive[p] /\ pc[p] = "compile"
  /\ r.leaked <= MaxLeak
  /\ mCompiled' = [mCompiled EXCEPT ![p] = r.compiled]
  /\ mStatus' = [mStatus EXCEPT ![p] = r.status]
  /\ leaked' = [leaked EXCEPT ![p] = r.leaked]
  /\ UNCHANGED <<mCached, mCacheDir, mCacheName, resVars, srcVars, envVars,
                 alive, hObj, hInfo, fsVars>>
  /\ IF r.ret # "0"
       THEN \* ALOGE("LLVM error message: %s\n", getCompilerErrorMessage())
            /\ mErrorCode' = [mErrorCode EXCEPT ![p] =
                                ErrMsgCode(r.status, r.err)]
            /\ UNCHANGED mObjectType
            /\ Goto(p, "idle")
            /\ SetOp(p, [lastOp[p] EXCEPT !.ret = r.ret, !.steps = r.steps,
                           !.arg = <<r.failed>>,
                           !.did = @ \cup {"compile", "compile_failed"}])
     ELSE IF r.status # Compiled \/ ErrMsgValue(r.status, r.compiled) = "null"
       THEN \* writeCache returns 1 and prepareExecutable returns it
            /\ UNCHANGED <<mErrorCode, mObjectType>>
            /\ Goto(p, "idle")
            /\ SetOp(p, [lastOp[p] EXCEPT !.ret = "1", !.steps = r.steps,
                           !.arg = <<r.failed>>,
                           !.did = @ \cup {"compile", "write", "write_refused"}])
     ELSE IF ~isCacheable(p)
       THEN /\ UNCHANGED mErrorCode
            /\ mObjectType' = [mObjectType EXCEPT ![p] = Executable]
            /\ Goto(p, "idle")
            /\ SetOp(p, [lastOp[p] EXCEPT !.ret = "0", !.steps = r.steps,
                           !.arg = <<r.failed>>,
                           !.did = @ \cup {"compile", "write", GdbTag(r.status)}])
     ELSE /\ UNCHANGED <<mErrorCode, mObjectType>>
          /\ Goto(p, "w_unlink_obj")
          /\ SetOp(p, [lastOp[p] EXCEPT !.steps = r.steps,
                         !.arg = <<r.failed>>,
                         !.did = @ \cup {"compile", "write"}])

\* ---------------------------------------------------- writeCache, on disk
WriteStep(p, label) == alive[p] /\ pc[p] = label

\* Variant: the old object file is not unlinked before the new one is opened.
WUnlinkObj_Keep(p) ==
  /\ WriteStep(p, "w_unlink_obj")
  /\ Goto(p, "w_unlink_info")
  /\ UNCHANGED <<scriptVars, alive, hObj, hInfo, fsVars, envVars, lastOp>>

\* ::unlink(objPath.c_str())
WUnlinkObj(p) ==
  /\ WriteStep(p, "w_unlink_obj")
  /\ disk' = Unlink(disk, getCachedObjectPath(p))
  /\ inodes' = Reclaim(disk', hObj, hInfo, inodes)
  /\ Goto(p, "w_unlink_info")
  /\ UNCHANGED <<scriptVars, alive, hObj, hInfo, envVars, lastOp>>

\* ::unlink(infoPath.c_str())
WUnlinkInfo(p) ==
  /\ WriteStep(p, "w_unlink_info")
  /\ disk' = Unlink(disk, getCacheInfoPath(p))
  /\ inodes' = Reclaim(disk', hObj, hInfo, inodes)
  /\ Goto(p, "w_open_obj")
  /\ UNCHANGED <<scriptVars, alive, hObj, hInfo, envVars, lastOp>>

\* objFile.open(objPath, OpenMode::Write) >= 0 && ...
WOpenObj(p, ok) ==
  LET path == getCachedObjectPath(p)
      i == OpenWriteInode(p, disk, hObj, hInfo, path)
  IN
  /\ WriteStep(p, "w_open_obj")
  /\ UNCHANGED <<artVars, mCacheDir, mCacheName, mErrorCode, resVars, srcVars,
                 alive, hInfo, envVars>>
  /\ IF ok /\ CanOpenWrite(p, disk, hObj, hInfo, path)
       THEN /\ hObj' = [hObj EXCEPT ![p] = i]
            /\ disk' = [disk EXCEPT ![path] = i]
            /\ inodes' = [inodes EXCEPT ![i] = EmptyFile]
            /\ Goto(p, "w_open_info")
            /\ UNCHANGED <<mObjectType, lastOp>>
       ELSE /\ UNCHANGED <<hObj, fsVars>>
            /\ Finish(p, {"wopen_failed"})

\* ... && infoFile.open(infoPath, OpenMode::Write) >= 0; when it fails the
\* block is skipped and both handles go out of scope.
WOpenInfo(p, ok) ==
  LET path == getCacheInfoPath(p)
      i == OpenWriteInode(p, disk, hObj, hInfo, path)
  IN
  /\ WriteStep(p, "w_open_info")
  /\ UNCHANGED <<artVars, mCacheDir, mCacheName, mErrorCode, resVars, srcVars,
                 alive, envVars>>
  /\ IF ok /\ CanOpenWrite(p, disk, hObj, hInfo, path)
       THEN /\ hInfo' = [hInfo EXCEPT ![p] = i]
            /\ disk' = [disk EXCEPT ![path] = i]
            /\ inodes' = [inodes EXCEPT ![i] = EmptyFile]
            /\ Goto(p, "w_write")
            /\ UNCHANGED <<hObj, mObjectType, lastOp>>
       ELSE /\ hObj' = [hObj EXCEPT ![p] = NoFile]
            /\ inodes' = Reclaim(disk, hObj', hInfo, inodes)
            /\ UNCHANGED <<hInfo, disk>>
            /\ Finish(p, {"wopen_failed"})

\* writer.writeCacheFile(&objFile, &infoFile, this, libRS_threadable)
\* ok: the encoder wrote both files completely.
WWrite(p, ok) ==
  /\ WriteStep(p, "w_write")
  /\ UNCHANGED <<artVars, mCacheDir, mCacheName, mErrorCode, resVars, srcVars,
                 alive, disk, envVars>>
  /\ IF ok
       THEN /\ hObj' = [hObj EXCEPT ![p] = NoFile]
            /\ hInfo' = [hInfo EXCEPT ![p] = NoFile]
            /\ inodes' = Reclaim(disk, hObj', hInfo',
                 [inodes EXCEPT
                    ![hObj[p]] = FullFile(p, << >>, CurrentEnv(p)),
                    ![hInfo[p]] = FullFile(p, WriteLedger(p), CurrentEnv(p))])
            /\ Finish(p, {"cache_written"})
       ELSE /\ inodes' = [inodes EXCEPT ![hObj[p]] = PartialFile(p),
                                        ![hInfo[p]] = PartialFile(p)]
            /\ Goto(p, "w_trunc_obj")
            /\ Note(p, {"encode_failed"})
            /\ UNCHANGED <<hObj, hInfo, mObjectType>>

\* objFile.truncate(); objFile.close();
WTruncObj(p) ==
  /\ WriteStep(p, "w_trunc_obj")
  /\ hObj' = [hObj EXCEPT ![p] = NoFile]
  /\ inodes' = Reclaim(disk, hObj', hInfo,
                       [inodes EXCEPT ![hObj[p]] = EmptyFile])
  /\ Goto(p, "w_unlink_bad_obj")
  /\ UNCHANGED <<scriptVars, alive, hInfo, disk, envVars, lastOp>>

\* unlink(objPath.c_str()); a failure is only logged
WUnlinkBadObj(p) ==
  /\ WriteStep(p, "w_unlink_bad_obj")
  /\ disk' = Unlink(disk, getCachedObjectPath(p))
  /\ inodes' = Reclaim(disk', hObj, hInfo, inodes)
  /\ Goto(p, "w_trunc_info")
  /\ UNCHANGED <<scriptVars, alive, hObj, hInfo, envVars, lastOp>>

\* infoFile.truncate(); infoFile.close();
WTruncInfo(p) ==
  /\ WriteStep(p, "w_trunc_info")
  /\ hInfo' = [hInfo EXCEPT ![p] = NoFile]
  /\ inodes' = Reclaim(disk, hObj, hInfo',
                       [inodes EXCEPT ![hInfo[p]] = EmptyFile])
  /\ Goto(p, "w_unlink_bad_info")
  /\ UNCHANGED <<scriptVars, alive, hObj, disk, envVars, lastOp>>

\* unlink(infoPath.c_str()); writeCache returns 0 and the call finishes.
WUnlinkBadInfo(p) ==
  /\ WriteStep(p, "w_unlink_bad_info")
  /\ disk' = Unlink(disk, getCacheInfoPath(p))
  /\ inodes' = Reclaim(disk', hObj, hInfo, inodes)
  /\ UNCHANGED <<artVars, mCacheDir, mCacheName, mErrorCode, resVars, srcVars,
                 alive, hObj, hInfo, envVars>>
  /\ Finish(p, {})

\* ----------------------------------------------------------------- queries
\* A query that leaves every field alone and answers ret, having delegated
\* to the artifact named by target ("none" when it does not delegate).
Answer(p, op, ret, target) ==
  /\ SetOp(p, [Ret(p, op, ret) EXCEPT !.did = {target}])
  /\ UNCHANGED <<scriptVars, procVars, fsVars, envVars>>

\* A query that does not delegate, sets InvalidOperation and answers ret.
Refuse(p, op, ret) ==
  /\ mErrorCode' = [mErrorCode EXCEPT ![p] = BCC_INVALID_OPERATION]
  /\ SetOp(p, [Ret(p, op, ret) EXCEPT !.did = {"none"}])
  /\ UNCHANGED <<artVars, cfgVars, resVars, srcVars, procVars, fsVars, envVars>>

\* A delegation through a null artifact pointer that kills the process.
Die(p, op) ==
  /\ Crash(p, op)
  /\ UNCHANGED <<scriptVars, fsVars, envVars>>

\* A delegated query returns whatever the artifact answers ("delegated").
lookup(p, ub) ==
  /\ Ready(p)
  /\ IF NullDeref(mStatus[p], mCompiled[p], mCached[p]) /\ ub = "crash"
       THEN Die(p, "lookup")
     ELSE IF mStatus[p] = Compiled
       THEN Answer(p, "lookup", "delegated", "compiled")
     ELSE IF mStatus[p] = Cached
       THEN Answer(p, "lookup", "delegated", "cached")
     ELSE Refuse(p, "lookup", "null")

\* The six count queries getExportVarCount, getExportFuncCount,
\* getExportForEachCount, getPragmaCount, getFuncCount, getObjectSlotCount
\* (one code shape): const methods, the default case returns 0.
GetCount(p, ub) ==
  /\ Ready(p)
  /\ IF NullDeref(mStatus[p], mCompiled[p], mCached[p]) /\ ub = "crash"
       THEN Die(p, "getCount")
     ELSE IF mStatus[p] = Compiled THEN Answer(p, "getCount", "delegated", "compiled")
     ELSE IF mStatus[p] = Cached THEN Answer(p, "getCount", "delegated", "cached")
     ELSE Answer(p, "getCount", "0", "none")

\* Variant: the default case of a list-fill query does not set the error code.
GetList_Silent(p, ub) ==
  /\ Ready(p)
  /\ IF NullDeref(mStatus[p], mCompiled[p], mCached[p]) /\ ub = "crash"
       THEN Die(p, "getList")
     ELSE IF mStatus[p] = Cached THEN Answer(p, "getList", "void", "cached")
     ELSE IF mStatus[p] = Compiled THEN Answer(p, "getList", "void", "compiled")
     ELSE Answer(p, "getList", "void", "none")

\* The six list-fill queries getExportVarList, getExportFuncList,
\* getExportForEachList, getPragmaList, getFuncInfoList, getObjectSlotList
\* (one code shape: DELEGATE(Cached); DELEGATE(Compiled); default).
GetList(p, ub) ==
  /\ Ready(p)
  /\ IF NullDeref(mStatus[p], mCompiled[p], mCached[p]) /\ ub = "crash"
       THEN Die(p, "getList")
     ELSE IF mStatus[p] = Cached THEN Answer(p, "getList", "void", "cached")
     ELSE IF mStatus[p] = Compiled THEN Answer(p, "getList", "void", "compiled")
     ELSE Refuse(p, "getList", "void")

\* The three name-list queries getExportVarNameList, getExportFuncNameList,
\* getExportForEachNameList (one code shape): only the Compiled case
\* delegates.
GetNameList(p, ub) ==
  /\ Ready(p)
  /\ IF mStatus[p] = Compiled /\ ~mCompiled[p].ptr /\ ub = "crash"
       THEN Die(p, "getNameList")
     ELSE IF mStatus[p] = Compiled
       THEN Answer(p, "getNameList", "void", "compiled")
     ELSE Refuse(p, "getNameList", "void")

\* ------------------------------------------------- registerSymbolCallback
Resolvers == {<<"null", "null">>, <<"f", "x">>, <<"f", "null">>}

\* Variant: the resolver is stored only when the call is valid.
registerSymbolCallback_Guarded(p, pFn, pContext) ==
  /\ Ready(p)
  /\ IF mStatus[p] # Unknown
       THEN /\ mErrorCode' = [mErrorCode EXCEPT ![p] = BCC_INVALID_OPERATION]
            /\ SetOp(p, [Ret(p, "registerSymbolCallback", "1") EXCEPT
                            !.arg = <<pFn, pContext>>])
            /\ UNCHANGED resVars
       ELSE /\ mpExtSymbolLookupFn' = [mpExtSymbolLookupFn EXCEPT ![p] = pFn]
            /\ mpExtSymbolLookupFnContext' =
                 [mpExtSymbolLookupFnContext EXCEPT ![p] = pContext]
            /\ UNCHANGED mErrorCode
            /\ SetOp(p, [Ret(p, "registerSymbolCallback", "0") EXCEPT
                            !.arg = <<pFn, pContext>>])
  /\ UNCHANGED <<artVars, cfgVars, srcVars, procVars, fsVars, envVars>>

registerSymbolCallback(p, pFn, pContext) ==
  /\ Ready(p)
  /\ mpExtSymbolLookupFn' = [mpExtSymbolLookupFn EXCEPT ![p] = pFn]
  /\ mpExtSymbolLookupFnContext' =
       [mpExtSymbolLookupFnContext EXCEPT ![p] = pContext]
  /\ IF mStatus[p] # Unknown
       THEN /\ mErrorCode' = [mErrorCode EXCEPT ![p] = BCC_INVALID_OPERATION]
            /\ SetOp(p, [Ret(p, "registerSymbolCallback", "1") EXCEPT
                            !.arg = <<pFn, pContext>>])
       ELSE /\ UNCHANGED mErrorCode
            /\ SetOp(p, [Ret(p, "registerSymbolCallback", "0") EXCEPT
                            !.arg = <<pFn, pContext>>])
  /\ UNCHANGED <<artVars, cfgVars, srcVars, procVars, fsVars, envVars>>

\* ------------------------------------------------------ object lifetime
\* Script::~Script: deletes the artifact the status names and both source
\* descriptors; the object is gone afterwards.
Destroy(p) ==
  /\ Ready(p)
  /\ alive' = [alive EXCEPT ![p] = FALSE]
  /\ mStatus' = [mStatus EXCEPT ![p] = Unknown]
  /\ mCompiled' = [mCompiled EXCEPT ![p] = NullArtifact]
  /\ mCached' = [mCached EXCEPT ![p] = "null"]
  /\ leaked' = [leaked EXCEPT ![p] = 0]
  /\ mSourceList' = [mSourceList EXCEPT ![p] = [i \in 0..1 |-> NULL]]
  /\ mCacheDir' = [mCacheDir EXCEPT ![p] = EmptyStr]
  /\ mCacheName' = [mCacheName EXCEPT ![p] = EmptyStr]
  /\ mErrorCode' = [mErrorCode EXCEPT ![p] = BCC_NO_ERROR]
  /\ mObjectType' = [mObjectType EXCEPT ![p] = ObjUnknown]
  /\ mpExtSymbolLookupFn' = [mpExtSymbolLookupFn EXCEPT ![p] = "null"]
  /\ mpExtSymbolLookupFnContext' =
       [mpExtSymbolLookupFnContext EXCEPT ![p] = "null"]
  /\ SetOp(p, NoOp)
  /\ UNCHANGED <<pc, hObj, hInfo, fsVars, envVars>>

\* A process starts and constructs a fresh Script (every field as in Init)
\* once the Scripts of the earlier processes are gone.
Construct(p) ==
  /\ \A q \in Procs : ~alive[q]
  /\ pc[p] = "idle"
  /\ alive' = [alive EXCEPT ![p] = TRUE]
  /\ UNCHANGED <<scriptVars, pc, hObj, hInfo, fsVars, envVars, lastOp>>

\* ------------------------------------------------------------------- Next
\* The answers of the allocator, the backend and the file system that make
\* a difference in the current state (the others give the same step).
FailChoices(p) ==
  {"none"} \cup
  {PipelineSteps(mSourceList[p])[k] : k \in 2..Len(PipelineSteps(mSourceList[p]))}
UBChoices(bad) == IF bad THEN {"crash", "go"} ELSE {"go"}
BadArtifact(p) == NullDeref(mStatus[p], mCompiled[p], mCached[p])

CompileStep(p) ==
  \/ \E msg \in MsgValues : Compile(p, FALSE, "none", msg)
  \/ \E fail \in FailChoices(p), msg \in MsgValues : Compile(p, TRUE, fail, msg)

CacheSteps(p) ==
  \/ \E ok \in BOOLEAN : LoadOpenObj(p, ok)
  \/ \E ok \in BOOLEAN : LoadOpenInfo(p, ok)
  \/ \E decodeOK \in BOOLEAN : LoadRead(p, decodeOK)
  \/ CompileStep(p)
  \/ WUnlinkObj(p)
  \/ WUnlinkInfo(p)
  \/ \E ok \in BOOLEAN : WOpenObj(p, ok)
  \/ \E ok \in BOOLEAN : WOpenInfo(p, ok)
  \/ \E ok \in BOOLEAN : WWrite(p, ok)
  \/ WTruncObj(p)
  \/ WUnlinkBadObj(p)
  \/ WTruncInfo(p)
  \/ WUnlinkBadInfo(p)

AllocChoices(p, valid) ==
  IF valid /\ mStatus[p] = Unknown THEN BOOLEAN ELSE {TRUE}

\* The contents offered to the single Script of Spec: one identity (which
\* content a source has matters to the cache only; see SpecCache).
Contents(p) == {1}

AddSource(p) ==
  \/ \E idx \in 0..1, resName \in BOOLEAN, bitcode \in {NULL} \cup Contents(p) :
       \E alloc \in AllocChoices(p, resName /\ bitcode # NULL) :
         addSourceBC(p, idx, resName, bitcode, alloc)
  \/ \E idx \in 0..1, module \in {NULL} \cup Contents(p) :
       \E alloc \in AllocChoices(p, module # NULL) :
         addSourceModule(p, idx, module, alloc)
  \/ \E idx \in 0..1, path \in {"null", "missing", "file"} :
       \E content \in IF path = "file" THEN Contents(p) ELSE {1},
          alloc \in AllocChoices(p, path = "file") :
         addSourceFile(p, idx, path, content, alloc)

Relocate(p) ==
  \/ \E ub \in UBChoices(mStatus[p] = Compiled) :
       prepareRelocatable(p, FALSE, "none", "null", TRUE, TRUE, ub)
  \/ \E fail \in FailChoices(p) \ {"none"}, msg \in MsgValues :
       prepareRelocatable(p, TRUE, fail, msg, TRUE, TRUE, "go")
  \/ mSourceList[p][0] = NULL /\ \E msg \in MsgValues :
       prepareRelocatable(p, TRUE, "none", msg, TRUE, TRUE, "go")
  \/ mSourceList[p][0] # NULL /\
       \E msg \in MsgValues, openOK \in BOOLEAN, writeFull \in BOOLEAN :
         prepareRelocatable(p, TRUE, "none", msg, openOK, writeFull, "go")

Queries(p) ==
  \/ \E ub \in IF mStatus[p] = Compiled /\ ~mCompiled[p].ptr
                 THEN UBOutcomes ELSE {"null"} :
       getCompilerErrorMessage(p, ub)
  \/ \E ub \in UBChoices(BadArtifact(p)) : lookup(p, ub)
  \/ \E ub \in UBChoices(BadArtifact(p)) : GetCount(p, ub)
  \/ \E ub \in UBChoices(BadArtifact(p)) : GetList(p, ub)
  \/ \E ub \in UBChoices(BadArtifact(p)) : GetNameList(p, ub)

Finalize(p) ==
  \E a \in CacheArgs : prepareExecutable(p, a[1], a[2])

Register(p) ==
  \E r \in Resolvers : registerSymbolCallback(p, r[1], r[2])

\* One host process using one Script from construction to destruction.
Next ==
  \E p \in HostProcs :
    \/ AddSource(p)
    \/ Relocate(p)
    \/ Finalize(p)
    \/ CacheSteps(p)
    \/ Queries(p)
    \/ Register(p)
    \/ Destroy(p)

Spec == Init /\ [][Next]_vars

\* ------------------------------------------------------------ SpecCache
\* Two runs against one cache location: process A constructs a Script, adds
\* sources, finalizes and destroys it; then a later process B, started with
\* the same or with an updated runtime, does the same with a fresh Script
\* whose sources are the same or differ.
SourcesOf(h, l) == [i \in 0..1 |-> IF i = 0 THEN h ELSE l]

InitCache ==
  /\ FreshScript
  /\ alive = [p \in Procs |-> p = "A"]
  /\ mSourceList = [p \in Procs |-> SourcesOf(NULL, NULL)]
  /\ \E b \in Hashes, r \in Hashes :
       /\ sha1LibBCC = [p \in Procs |-> IF p = "A" THEN 1 ELSE b]
       /\ sha1LibRS = [p \in Procs |-> IF p = "A" THEN 1 ELSE r]
  /\ TARGET_BUILD \in BOOLEAN
  /\ nocache \in BOOLEAN
  /\ NoCacheFiles

NextCache ==
  \/ \E idx \in 0..1 : addSourceBC("A", idx, TRUE, 1, TRUE)
  \/ \E idx \in 0..1, h \in Hashes : addSourceBC("B", idx, TRUE, h, TRUE)
  \/ \E p \in Procs : Finalize(p) \/ CacheSteps(p)
  \/ Destroy("A")
  \/ Construct("B")

SpecCache == InitCache /\ [][NextCache]_vars

\* ------------------------------------------------------------- SpecConc
\* Two processes, each with a Script whose primary source was added,
\* finalize against the same cache location at the same time; their steps
\* interleave at every file-system call.  The cache location is empty or
\* holds the files of an earlier run of A's script.  The backend compiles
\* or fails in its last step.
InitConc ==
  /\ FreshScript
  /\ alive = [p \in Procs |-> TRUE]
  /\ \E h \in 1..2 :
       mSourceList = [p \in Procs |->
                        IF p = "A" THEN SourcesOf(1, NULL) ELSE SourcesOf(h, NULL)]
  /\ sha1LibBCC = [p \in Procs |-> 1]
  /\ sha1LibRS = [p \in Procs |-> 1]
  /\ TARGET_BUILD \in BOOLEAN
  /\ nocache = FALSE
  /\ \/ NoCacheFiles
     \/ OldCache(<<1, 1, 1>>)

NextConc ==
  \E p \in Procs :
    \/ prepareExecutable(p, <<"c">>, <<"n">>)
    \/ \E ok \in BOOLEAN : LoadOpenObj(p, ok)
    \/ \E ok \in BOOLEAN : LoadOpenInfo(p, ok)
    \/ \E decodeOK \in BOOLEAN : LoadRead(p, decodeOK)
    \/ \E fail \in {"none", "compile"} : Compile(p, TRUE, fail, "str")
    \/ WUnlinkObj(p)
    \/ WUnlinkInfo(p)
    \/ \E ok \in BOOLEAN : WOpenObj(p, ok)
    \/ \E ok \in BOOLEAN : WOpenInfo(p, ok)
    \/ \E ok \in BOOLEAN : WWrite(p, ok)
    \/ WTruncObj(p)
    \/ WUnlinkBadObj(p)
    \/ WTruncInfo(p)
    \/ WUnlinkBadInfo(p)

SpecConc == InitConc /\ [][NextConc]_vars

\* ================================================================ claims
\* Labels of prepareExecutable between its opens for reading and its read,
\* and inside the write path.
ReaderPcs == {"load_open_info", "load_read"}
WriterPcs == {"w_unlink_obj", "w_unlink_info", "w_open_obj", "w_open_info",
              "w_write", "w_trunc_obj", "w_unlink_bad_obj", "w_trunc_info",
              "w_unlink_bad_info"}
QueryOps == {"lookup", "getCount", "getList", "getNameList"}

\* C1: between host operations at most one of the compiled and the cached
\* artifact is live (allocated and not destroyed), and the live one is the
\* one the status names: Compiled - only a compiled artifact, Cached - only
\* the cached artifact, Unknown - neither.
C1_OneLiveArtifactMatchesStatus ==
  \A p \in HostProcs :
    LET compiled == (IF mCompiled[p].ptr THEN 1 ELSE 0) + leaked[p]
        cached == IF mCached[p] = "obj" THEN 1 ELSE 0
    IN Ready(p) =>
         /\ compiled + cached <= 1
         /\ mStatus[p] = Compiled => (compiled = 1 /\ cached = 0)
         /\ mStatus[p] = Cached => (cached = 1 /\ compiled = 0)
         /\ mStatus[p] = Unknown => (compiled = 0 /\ cached = 0)

\* C2: status is terminal once it leaves Unknown: while the Script exists no
\* step moves it from Compiled or Cached to any other value.
C2_StatusTerminal ==
  [][\A p \in HostProcs :
       (alive[p] /\ alive'[p] /\ mStatus[p] # Unknown)
         => mStatus'[p] = mStatus[p]]_vars

\* C3: an add-source call (by buffer, module or file; any slot, any
\* arguments) made when status is not Unknown returns failure, sets the
\* error code to InvalidOperation and leaves both source slots unchanged.
C3_AddSourceAfterFinalizeRejected ==
  [][\A p \in HostProcs :
       (Ready(p) /\ alive'[p] /\ mStatus[p] # Unknown
          /\ lastOp'[p].op \in AddSourceOps)
         => /\ lastOp'[p].ret = "1"
            /\ mErrorCode'[p] = BCC_INVALID_OPERATION
            /\ mSourceList'[p] = mSourceList[p]]_vars

\* C4: cache round trip: when the later Script B reads a cache pair that an
\* earlier Script wrote completely under the dependency hashes B has now, and
\* the codec can decode it, B's prepareExecutable is a hit: status Cached, the
\* compile pipeline not invoked.
C4_CacheRoundTrip ==
  LET op == lastOp["B"] IN
    (op.op = "prepareExecutable" /\ "fresh_cache" \in op.did
       /\ op.load # "decode")
      => /\ op.load = "hit"
         /\ mStatus["B"] = Cached
         /\ "compile" \notin op.did

\* C5: cache invalidation: when the files a Script has opened for loading
\* were written under dependency hashes (runtime, support library, sources)
\* that differ from the ones it has now, the read is a miss: the Script does
\* not become Cached, holds no cached artifact, and goes on to compile.
C5_StaleCacheMisses ==
  [][\A p \in Procs :
       (alive[p] /\ pc[p] = "load_read" /\ pc'[p] # "load_read"
          /\ inodes[hInfo[p]].env # CurrentEnv(p))
         => /\ pc'[p] = "compile"
            /\ mStatus'[p] = Unknown
            /\ mCached'[p] = "null"
            /\ lastOp'[p].load \in {"ledger", "decode"}]_vars

\* B has refused a complete cache pair that A wrote under other dependency
\* hashes, and is about to compile.
C5_Witness ==
  /\ TARGET_BUILD
  /\ alive["B"] /\ pc["B"] = "compile" /\ lastOp["B"].load = "ledger"
  /\ disk[CacheInfoPath] # NoFile /\ disk[CacheObjPath] # NoFile
  /\ inodes[disk[CacheInfoPath]].st = "full"
  /\ inodes[disk[CacheObjPath]].st = "full"
  /\ inodes[disk[CacheInfoPath]].by = "A"
  /\ inodes[disk[CacheInfoPath]].env # CurrentEnv("B")
  /\ Len(inodes[disk[CacheInfoPath]].env) = Len(CurrentEnv("B"))

\* C6: concurrent-write safety: while a reader holds handles on cache files
\* the writer did not create, no step the writer takes in its write path
\* changes the content behind those handles.
C6_ReaderContentStable ==
  [][\A r \in Procs, w \in Procs :
       (r # w /\ pc[r] \in ReaderPcs /\ pc'[r] = pc[r] /\ pc[w] \in WriterPcs)
         => \A i \in {hObj[r], hInfo[r]} \ {NoFile} :
              i[1] # w => inodes'[i] = inodes[i]]_vars

\* A reader holds both old files, complete, while the writer has replaced the
\* object path with a new file and is writing.
C6_Witness ==
  \E r \in Procs, w \in Procs :
    /\ r # w /\ pc[r] = "load_read" /\ pc[w] = "w_write"
    /\ hObj[r] = <<"old", "obj">> /\ hInfo[r] = <<"old", "info">>
    /\ inodes[hObj[r]].st = "full" /\ inodes[hInfo[r]].st = "full"
    /\ disk[CacheObjPath] = <<w, "obj">> /\ disk[CacheInfoPath] = <<w, "info">>

\* C7: in prepareExecutable, whenever the compile pipeline succeeded the call
\* returns success with status Compiled, whatever the cache write did.
C7_WriteFailureNotFatal ==
  \A p \in HostProcs :
    LET op == lastOp[p] IN
      (op.op = "prepareExecutable" /\ op.ret # "pending"
         /\ "compile" \in op.did /\ "compile_failed" \notin op.did)
        => op.ret = "0" /\ mStatus[p] = Compiled

\* C8: prepareRelocatable returns non-zero when compilation failed, when the
\* output file cannot be opened and when the write was short; a short write
\* leaves no file at the output path, a failed open leaves the disk as it
\* was; the object type becomes Relocatable only when the call returns 0.
C8_RelocatableFailuresReported ==
  [][\A p \in HostProcs :
       (Ready(p) /\ alive'[p] /\ lastOp'[p].op = "prepareRelocatable")
         => LET op == lastOp'[p] IN
            /\ (op.did \cap {"compile_failed", "open_failed", "short_write"}
                  # {})
                 => (op.ret # "0" /\ mObjectType'[p] = mObjectType[p])
            /\ "short_write" \in op.did => disk'[OutPath] = NoFile
            /\ "open_failed" \in op.did => UNCHANGED fsVars
            /\ mObjectType'[p] # mObjectType[p]
                 => (mObjectType'[p] = Relocatable /\ op.ret = "0")]_vars

\* C9: prepareExecutable called when status is not Unknown returns failure,
\* sets the error code to InvalidOperation and changes nothing else: status,
\* artifacts, sources, cache strings, object type, resolver, handles and
\* files are as before; no load, compile, write or registration is invoked.
C9_PrepareExecutableRejectIsPure ==
  [][\A p \in HostProcs :
       (Ready(p) /\ alive'[p] /\ mStatus[p] # Unknown
          /\ lastOp'[p].op = "prepareExecutable")
         => /\ lastOp'[p].ret = "1"
            /\ lastOp'[p].did = {}
            /\ lastOp'[p].steps = << >>
            /\ mErrorCode'[p] = BCC_INVALID_OPERATION
            /\ UNCHANGED <<artVars, cfgVars, resVars, srcVars, procVars,
                           fsVars, envVars>>]_vars

\* A finalized Script whose last call, prepareExecutable, was rejected.
C9_Witness ==
  \E p \in HostProcs :
    /\ Ready(p) /\ mStatus[p] \in {Compiled, Cached}
    /\ lastOp[p].op = "prepareExecutable" /\ lastOp[p].ret = "1"
    /\ lastOp[p].did = {}
    /\ mErrorCode[p] = BCC_INVALID_OPERATION
    /\ mObjectType[p] \in {Executable, Relocatable}

C11_CachedAnswersEveryQuery ==
  [][\A p \in HostProcs :
       (Ready(p) /\ alive'[p] /\ mStatus[p] = Cached /\ mCached[p] = "obj"
          /\ lastOp'[p].op \in QueryOps)
         => /\ lastOp'[p].did = {"cached"}
            /\ mErrorCode'[p] = mErrorCode[p]]_vars

\* C12: the last-error field is sticky and complete: an operation that
\* returns a failure signal has an error code set when it returns (the
\* out-of-memory kind when an allocation failed), and an operation that
\* returns success leaves the error code as it was.
C12_ErrorCodeStickyComplete ==
  [][\A p \in HostProcs :
       (alive[p] /\ alive'[p] /\ pc'[p] = "idle"
          /\ lastOp'[p].op # "none")
         => LET op == lastOp'[p]
                failed == \/ op.ret = "1"
                          \/ op.op = "lookup" /\ op.ret = "null"
                          \/ /\ op.op = "getCompilerErrorMessage"
                             /\ op.ret = "null" /\ mStatus[p] # Compiled
                succeeded == op.ret \in {"0", "delegated", "void", "str"}
                               /\ op.did # {"none"}
            IN /\ failed => mErrorCode'[p] # BCC_NO_ERROR
               /\ (failed /\ op.steps = <<"alloc">>)
                    => mErrorCode'[p] = BCC_OUT_OF_MEMORY
               /\ succeeded => mErrorCode'[p] = mErrorCode[p]]_vars

\* C13: registerSymbolCallback(fn, ctx) stores (fn, ctx) in every status; it
\* returns 0 and leaves the error code alone when status is Unknown, returns
\* 1 with InvalidOperation otherwise (the new resolver is stored all the
\* same); it changes no other field.
C13_RegisterAlwaysStores ==
  [][\A p \in HostProcs :
       (Ready(p) /\ alive'[p] /\ lastOp'[p].op = "registerSymbolCallback")
         => /\ mpExtSymbolLookupFn'[p] = lastOp'[p].arg[1]
            /\ mpExtSymbolLookupFnContext'[p] = lastOp'[p].arg[2]
            /\ IF mStatus[p] = Unknown
                 THEN /\ lastOp'[p].ret = "0"
                      /\ mErrorCode'[p] = mErrorCode[p]
                 ELSE /\ lastOp'[p].ret = "1"
                      /\ mErrorCode'[p] = BCC_INVALID_OPERATION
            /\ UNCHANGED <<artVars, cfgVars, srcVars, procVars, fsVars,
                           envVars>>]_vars

\* A finalized Script on which a registration was reported invalid and whose
\* stored resolver is the one just passed.
C13_Witness ==
  \E p \in HostProcs :
    /\ Ready(p) /\ mStatus[p] \in {Compiled, Cached}
    /\ lastOp[p].op = "registerSymbolCallback" /\ lastOp[p].ret = "1"
    /\ lastOp[p].arg = <<"f", "x">>
    /\ mpExtSymbolLookupFn[p] = "f" /\ mpExtSymbolLookupFnContext[p] = "x"
    /\ mErrorCode[p] = BCC_INVALID_OPERATION

\* C14: an add-source call on a slot that already holds a descriptor, status
\* Unknown, returns what it would return on an empty slot, and no descriptor
\* is left allocated and unreferenced: the one held before was freed, also
\* when the replacing call fails.
C14_NoDescriptorLost ==
  \A p \in HostProcs :
    (alive[p] /\ lastOp[p].op \in AddSourceOps)
      => "src_lost" \notin lastOp[p].did

\* C15: within one prepareExecutable call from status Unknown the compile
\* pipeline is invoked exactly when the cache load did not succeed.  A hit
\* sets status Cached, returns 0, and neither compiles nor writes.  A miss
\* (null or empty location, caching disabled, missing file, ledger mismatch,
\* decode error) does not end the call, sets no error code and leaves status
\* Unknown; the call then returns what compile-then-write returns.
C15_CompileIffLoadMissed ==
  [][\A p \in HostProcs :
       (alive[p] /\ alive'[p] /\ lastOp'[p].op = "prepareExecutable"
          /\ lastOp'[p].did # {})
         => LET op == lastOp'[p]
                misses == {"nullarg", "disabled", "noobj", "noinfo", "ledger",
                           "decode"}
            IN /\ (pc[p] \in {"idle"} \cup ReaderPcs \cup {"load_open_obj"})
                    => /\ mErrorCode'[p] = mErrorCode[p]
                       /\ pc'[p] = "idle"
                            => /\ op.load = "hit" /\ op.ret = "0"
                               /\ mStatus'[p] = Cached
                               /\ op.did \cap {"compile", "write"} = {}
                       /\ pc'[p] = "compile"
                            => /\ op.load \in misses /\ op.ret = "pending"
                               /\ mStatus'[p] = Unknown
                       /\ pc'[p] \in {"idle", "compile", "load_open_obj"}
                                       \cup ReaderPcs
               /\ (pc'[p] = "idle")
                    => /\ "compile" \in op.did <=> op.load \in misses
                       /\ "compile" \notin op.did <=> op.load = "hit"
                       /\ op.load \in misses
                            => (op.ret = "1" <=>
                                  op.did \cap {"compile_failed",
                                               "write_refused"} # {})
                       /\ op.ret \in {"0", "1"}]_vars

\* A call that missed the cache because of a ledger mismatch, compiled,
\* wrote the cache and returned success with a clean error code.
C15_Witness ==
  \E p \in HostProcs :
    /\ Ready(p) /\ lastOp[p].op = "prepareExecutable"
    /\ lastOp[p].load = "ledger" /\ lastOp[p].ret = "0"
    /\ {"compile", "cache_written"} \subseteq lastOp[p].did
    /\ mStatus[p] = Compiled /\ mErrorCode[p] = BCC_NO_ERROR

\* C16: the dependency ledger has the same composition on the load path and
\* on the write path, in every build configuration: the runtime's identity,
\* the support library's identity, then each present source in slot order;
\* for the same sources the ledger handed to the cache writer equals the
\* ledger handed to the cache reader.
C16_LedgerSameOnBothPaths ==
  \A p \in Procs :
    (alive[p] /\ pc[p] \in {"load_read", "w_write"})
      => /\ WriteLedger(p) = LoadLedger(p)
         /\ LoadLedger(p) = RuntimeEntries(p) \o SrcEntries(mSourceList[p])
         /\ Len(WriteLedger(p)) =
              2 + Cardinality({i \in 0..1 : mSourceList[p][i] # NULL})

\* C17: after the write path of a single writer has finished, the cache
\* location holds both files completely written, or neither file; no empty
\* or partial file remains at either path, whichever step failed.
C17_BothFilesOrNeither ==
  \A p \in HostProcs :
    (Ready(p) /\ lastOp[p].op = "prepareExecutable"
       /\ lastOp[p].did \cap {"cache_written", "encode_failed",
                              "wopen_failed"} # {})
      => LET o == disk[getCachedObjectPath(p)]
             i == disk[getCacheInfoPath(p)]
         IN \/ o = NoFile /\ i = NoFile
            \/ /\ o # NoFile /\ i # NoFile
               /\ inodes[o].st = "full" /\ inodes[i].st = "full"
               /\ "cache_written" \in lastOp[p].did

\* C18: when two processes run the write path for the same cache location,
\* the files are replaced as a pair and never edited in place: a writer
\* never unlinks, opens for writing or truncates a file another writer
\* created, and when both paths hold complete files the same writer produced
\* both.
C18_WritersNeverTouchEachOther ==
  [][\A w \in Procs :
       LET o == disk[CacheObjPath]
           i == disk[CacheInfoPath]
           others == Procs \ {w}
       IN /\ (pc[w] \in {"w_unlink_obj", "w_unlink_bad_obj"} /\ pc'[w] # pc[w]
                /\ o # NoFile) => o[1] \notin others
          /\ (pc[w] \in {"w_unlink_info", "w_unlink_bad_info"}
                /\ pc'[w] # pc[w] /\ i # NoFile) => i[1] \notin others
          /\ (pc[w] = "w_open_obj" /\ pc'[w] = "w_open_info")
               => hObj'[w][1] = w
          /\ (pc[w] = "w_open_info" /\ pc'[w] = "w_write")
               => hInfo'[w][1] = w
          /\ (o # NoFile /\ i # NoFile /\ inodes[o].st = "full"
                /\ inodes[i].st = "full") => inodes[o].by = inodes[i].by]_vars

\* C19: a prepareExecutable call that finalizes the Script with a usable
\* artifact (cache hit or successful compile) registers the range of the
\* artifact matching the final status with the debugger, once, and sets the
\* object type to Executable before it returns; a call that returns because
\* status was not Unknown or because the compile pipeline failed registers
\* nothing and leaves the object type alone.
C19_RegistersUsableArtifact ==
  [][\A p \in HostProcs :
       (alive[p] /\ alive'[p] /\ pc'[p] = "idle"
          /\ lastOp'[p].op = "prepareExecutable" /\ lastOp'[p] # lastOp[p])
         => LET op == lastOp'[p]
                gdb == op.did \cap {"gdb_compiled", "gdb_cached", "gdb_null"}
                usable == \/ op.load = "hit"
                          \/ /\ "compile" \in op.did
                             /\ "compile_failed" \notin op.did
            IN IF usable
                 THEN /\ gdb = {GdbTag(mStatus'[p])}
                      /\ mStatus'[p] \in {Compiled, Cached}
                      /\ mObjectType'[p] = Executable
                      /\ op.ret = "0"
                 ELSE /\ gdb = {}
                      /\ mObjectType'[p] = mObjectType[p]
                      /\ op.ret = "1"]_vars

\* C20: the compile pipeline is fail-fast and ordered: construct the
\* artifact and share the resolver, require the primary source, materialize
\* the primary module, materialize the library module (if slot 1 is
\* present), set the base module, link the library module (if present),
\* backend compile.  The first failing step, construction included, is the
\* last one run, and after it getCompilerErrorMessage returns the backend's
\* message.  With slot 0 empty nothing is materialized or compiled.
C20_PipelineFailFastOrdered ==
  [][\A p \in HostProcs :
       LET srcs == mSourceList[p]
           lib == srcs[1] # NULL
           order == <<"alloc", "share", "require0", "prepare0">> \o
                    (IF lib THEN <<"prepare1">> ELSE << >>) \o
                    <<"readModule">> \o
                    (IF lib THEN <<"linkModule">> ELSE << >>) \o
                    <<"compile">>
           op == lastOp'[p]
           n == Len(op.steps)
       IN /\ (alive[p] /\ alive'[p] /\ op # lastOp[p] /\ "compile" \in op.did)
               => /\ n <= Len(order) /\ op.steps = SubSeq(order, 1, n)
                  /\ op.arg = <<"none">> => n = Len(order)
                  /\ op.arg # <<"none">>
                       => (op.steps[n] = op.arg[1] /\ op.ret \in {"1", "crash"})
                  /\ srcs[0] = NULL
                       => (n <= 3 /\ op.arg[1] \in {"alloc", "require0"})
          /\ (Ready(p) /\ "compile_failed" \in lastOp[p].did
                /\ op.op = "getCompilerErrorMessage")
               => /\ mCompiled[p].ptr
                  /\ op.ret = mCompiled[p].msg]_vars

\* C20 (amended): the pipeline is fail-fast and ordered as above; after the
\* failure of a step that follows construction getCompilerErrorMessage
\* returns the backend's message.  When construction itself fails no later
\* step runs and there is no backend message: on a Script whose status is
\* not Compiled getCompilerErrorMessage then returns null and sets
\* InvalidOperation.
C20_FailFastMessageAfterConstruction ==
  [][\A p \in HostProcs :
       LET srcs == mSourceList[p]
           lib == srcs[1] # NULL
           order == <<"alloc", "share", "require0", "prepare0">> \o
                    (IF lib THEN <<"prepare1">> ELSE << >>) \o
                    <<"readModule">> \o
                    (IF lib THEN <<"linkModule">> ELSE << >>) \o
                    <<"compile">>
           op == lastOp'[p]
           n == Len(op.steps)
       IN /\ (alive[p] /\ alive'[p] /\ op # lastOp[p] /\ "compile" \in op.did)
               => /\ n <= Len(order) /\ op.steps = SubSeq(order, 1, n)
                  /\ op.arg = <<"none">> => n = Len(order)
                  /\ op.arg # <<"none">>
                       => (op.steps[n] = op.arg[1] /\ op.ret \in {"1", "crash"})
                  /\ srcs[0] = NULL
                       => (n <= 3 /\ op.arg[1] \in {"alloc", "require0"})
          /\ (Ready(p) /\ "compile_failed" \in lastOp[p].did
                /\ op.op = "getCompilerErrorMessage")
               => IF lastOp[p].arg # <<"alloc">>
                    THEN /\ mCompiled[p].ptr /\ mStatus[p] = Compiled
                         /\ op.ret = mCompiled[p].msg
                         /\ mErrorCode'[p] = mErrorCode[p]
                    ELSE mStatus[p] # Compiled
                           => /\ op.ret = "null"
                              /\ mErrorCode'[p] = BCC_INVALID_OPERATION]_vars

\* A compile of a two-source Script that stopped at the link step.
C20_Witness ==
  \E p \in HostProcs :
    /\ Ready(p) /\ "compile_failed" \in lastOp[p].did
    /\ lastOp[p].arg = <<"linkModule">> /\ lastOp[p].ret = "1"
    /\ lastOp[p].steps = <<"alloc", "share", "require0", "prepare0",
                           "prepare1", "readModule", "linkModule">>
    /\ mStatus[p] = Compiled /\ mCompiled[p].ptr

\* C21: status becomes Compiled as soon as the compiled artifact is
\* allocated.  After a prepareExecutable or prepareRelocatable call that
\* failed in a compile step after the allocation, status is Compiled and the
\* failed artifact is held; status is Unknown after a failed compile only if
\* the allocation failed.  On a Script holding a failed compiled artifact a
\* later prepareExecutable or add-source call is rejected with
\* InvalidOperation, and lookup and the metadata queries delegate to that
\* artifact.
C21_FailedCompileLeavesCompiled ==
  [][\A p \in HostProcs :
       LET op == lastOp'[p]
           held == mStatus[p] = Compiled /\ mCompiled[p].ptr
                     /\ ~mCompiled[p].ok
       IN /\ (alive[p] /\ alive'[p] /\ op # lastOp[p]
                /\ "compile_failed" \in op.did)
               => /\ op.arg # <<"alloc">>
                       => /\ mStatus'[p] = Compiled
                          /\ mCompiled'[p].ptr /\ ~mCompiled'[p].ok
                  /\ mStatus'[p] = Unknown => op.arg = <<"alloc">>
                  /\ op.arg = <<"alloc">> => mStatus'[p] = mStatus[p]
          /\ (Ready(p) /\ alive'[p] /\ held
                /\ op.op \in AddSourceOps \cup {"prepareExecutable"})
               => /\ op.ret = "1"
                  /\ mErrorCode'[p] = BCC_INVALID_OPERATION
                  /\ UNCHANGED <<artVars, srcVars, procVars>>
          /\ (Ready(p) /\ alive'[p] /\ held /\ op.op \in QueryOps)
               => op.did = {"compiled"}]_vars

====
